---- MODULE Spec2Model ----
(***************************************************************************)
(* Model of scripts/check_pg_extensions.py: the rotating credential read   *)
(* from stdin (_get_auth_header), the polling loop (_wait_for_success) and *)
(* the enable/disable sequencer (test_extensions).                         *)
(*                                                                         *)
(* A line of the token stream is a sequence of one-character strings, its  *)
(* terminating newline included, so that str.strip() is computed and not   *)
(* assumed.  The stream is split the way the process sees it: `pipe` holds *)
(* the complete lines waiting at the file descriptor (what select() looks  *)
(* at), `tail` the unterminated bytes after them, `buf` the complete lines *)
(* the file object has already read ahead (what next(f) serves first).     *)
(***************************************************************************)
EXTENDS Integers, Sequences, FiniteSets, TLC

\* ------------------------------------------------------------------ bounds
MaxPlan == 4
MaxPolls == 2
MaxArrive == 3
SeqArrive == 1
HistArrive == 2

\* --------------------------------------------------------- program constants
ExitOk == 0
ExitUncaught == 1
ExitFailed_generic == ExitUncaught
ExitFailed == 8
NotExited == -1

Extensions == {"A", "B"}
Whitespace == {" ", "\n"}
RawLines == {<<"\n">>, <<" ", "\n">>, <<"a", "\n">>, <<" ", "b", "\n">>}
Fragments == {<<"b">>}
States == {"succeeded", "failed", "pending", "in progress"}
Descriptions == {"dependency missing", "out of disk"}
None == <<>>

\* ---------------------------------------------------------------- helpers
SeqsUpTo(S, n) == UNION {[1..m -> S] : m \in 0..n}

\* The plans of size at most n, the size of a plan being the number of its
\* rows plus the number of its fields: a first row, then a smaller plan.
RECURSIVE PlansUpTo(_)
PlansUpTo(n) ==
  {<<>>} \cup
  UNION {{<<row>> \o rest : rest \in PlansUpTo(n - 1 - Len(row))} :
           row \in SeqsUpTo(Extensions, n - 1)}

Plans == PlansUpTo(MaxPlan)

RECURSIVE lstrip(_)
lstrip(s) == IF s # <<>> /\ Head(s) \in Whitespace THEN lstrip(Tail(s)) ELSE s

RECURSIVE rstrip(_)
rstrip(s) == IF s # <<>> /\ s[Len(s)] \in Whitespace
             THEN rstrip(SubSeq(s, 1, Len(s) - 1)) ELSE s

\* A strip that leaves the whitespace in front of the line.
strip_rightOnly(s) == rstrip(s)

strip(s) == rstrip(lstrip(s))

reversed(s) == [i \in 1..Len(s) |-> s[Len(s) - i + 1]]

VARIABLES
  plan,         \* extension_sets: the rows of the csv, read once
  si,           \* index of the extension_set the outer for loop is at
  phase,        \* "enable" (first inner loop), "disable" (second), "end"
  ei,           \* index the running inner loop is at
  pc,           \* "main", "patch", "sleep", "get", "done"
  exitCode,     \* the process's exit status, NotExited while it runs
  auth_header,  \* _auth_header: None, or <<line>> for {"Authorization": line}
  buf,          \* complete lines read ahead by the file object
  pipe,         \* complete lines waiting at the file descriptor
  tail,         \* unterminated bytes at the end of the stream, <<>> if none
  closed,       \* the feeder has closed its end
  inRead,       \* the process is blocked inside next(f)
  budget,       \* lines the feeder writes during the run
  arrivals,     \* lines written by the feeder so far
  call,         \* what the last _get_auth_header call did
  patches,      \* every PATCH issued, in order
  polls,        \* every GET issued since the last PATCH, with its result
  lastHdr,      \* the header the last request carried
  dots,         \* progress markers printed since the last PATCH
  printed,      \* the failure description printed, "" if none
  trace,        \* whether the two histories below are kept
  written,      \* history: every line the feeder has written, in order
  adopted       \* history: every credential stored, in order

vars == <<plan, si, phase, ei, pc, exitCode, auth_header, buf, pipe, tail,
          closed, inRead, budget, arrivals, call, patches, polls, lastHdr, dots,
          printed, trace, written, adopted>>

posVars == <<si, phase, ei>>
streamVars == <<buf, pipe, tail, closed, budget, arrivals, trace, written>>
credVars == <<auth_header, inRead, call, adopted>>
reqVars == <<patches, polls, lastHdr, dots, printed>>

NoCall == [ready |-> FALSE, first |-> FALSE, before |-> None, after |-> None,
           nread |-> 0, notices |-> 0, outcome |-> "none",
           unread |-> <<>>, fresh |-> <<>>]

Start ==
  /\ si = 1 /\ phase = "enable" /\ ei = 1
  /\ pc = "main"
  /\ exitCode = NotExited
  /\ auth_header = None
  /\ buf = <<>> /\ pipe = <<>> /\ tail = <<>>
  /\ closed = FALSE
  /\ inRead = FALSE
  /\ arrivals = 0
  /\ call = NoCall
  /\ patches = <<>> /\ polls = <<>>
  /\ lastHdr = None
  /\ dots = 0
  /\ printed = ""
  /\ written = <<>> /\ adopted = <<>>

\* Every plan, a feeder that writes few lines.
Init == Start /\ plan \in Plans /\ budget = SeqArrive /\ trace = FALSE

\* A few plans (none, one row of two, rows of one around an empty row), a
\* feeder that writes few lines.
LivePlans == {<<>>, << <<"A", "B">> >>, << <<"A">>, <<>>, <<"B">> >>}

LiveInit == Start /\ plan \in LivePlans /\ budget = SeqArrive /\ trace = FALSE

\* One plan, a feeder that writes more lines.
CredInit == Start /\ plan = <<<<"A">>>> /\ budget = MaxArrive /\ trace = FALSE

\* One plan, a feeder that writes a backlog, the histories kept.
HistInit == Start /\ plan = <<<<"A">>>> /\ budget = HistArrive /\ trace = TRUE

\* A history with one more entry, where histories are kept.
Log(h, x) == IF trace THEN Append(h, x) ELSE h

\* ------------------------------------------------------- _get_auth_header
\* A readiness check that answers for waiting bytes only.
select_dataOnly(p, t, c) == p # <<>> \/ t # <<>>

\* select([f], [], [], 0)[0]: the descriptor is readable when bytes wait at
\* it, terminated or not, and also at end of file.
select(p, t, c) == p # <<>> \/ t # <<>> \/ c

\* A stream that hands out its most recent line first.
Available_newestFirst(b, p, t, c) ==
  reversed(b \o p \o (IF c /\ t # <<>> THEN <<t>> ELSE <<>>))

\* The lines next(f) can return without waiting: the read-ahead lines, then
\* the lines at the descriptor, then, once the feeder has closed, the
\* unterminated rest as a last line.
Available(b, p, t, c) == b \o p \o (IF c /\ t # <<>> THEN <<t>> ELSE <<>>)

\* The loop reading on for as long as lines are there and keeping the last
\* non-empty one.
RECURSIVE ReadLoop_newest(_, _, _, _, _)
ReadLoop_newest(h, avail, eof, n, notes) ==
  IF avail = <<>>
  THEN [outcome |-> IF h # None /\ n > 0 THEN "ok"
                    ELSE IF eof THEN "eof" ELSE "block",
        hdr |-> h, nread |-> n, notices |-> notes]
  ELSE LET line == strip(Head(avail))
       IN ReadLoop_newest(IF line # <<>> THEN <<line>> ELSE h, Tail(avail),
                          eof, n + 1,
                          IF line # <<>> THEN notes + 1 ELSE notes)

\* The loop reading past blank lines until it has stored a line.
RECURSIVE ReadLoop_skipBlank(_, _, _, _, _)
ReadLoop_skipBlank(h, avail, eof, n, notes) ==
  IF avail = <<>>
  THEN [outcome |-> IF eof THEN "eof" ELSE "block",
        hdr |-> h, nread |-> n, notices |-> notes]
  ELSE LET line == strip(Head(avail))
       IN IF line # <<>>
          THEN [outcome |-> "ok", hdr |-> <<line>>, nread |-> n + 1,
                notices |-> notes + 1]
          ELSE ReadLoop_skipBlank(h, Tail(avail), eof, n + 1, notes)

\* The loop waiting for more at end of file instead of raising.
RECURSIVE ReadLoop_retry(_, _, _, _, _)
ReadLoop_retry(h, avail, eof, n, notes) ==
  IF avail = <<>>
  THEN [outcome |-> "block", hdr |-> h, nread |-> n, notices |-> notes]
  ELSE LET line == strip(Head(avail))
           h2 == IF line # <<>> THEN <<line>> ELSE h
           notes2 == IF line # <<>> THEN notes + 1 ELSE notes
       IN IF h2 # None
          THEN [outcome |-> "ok", hdr |-> h2, nread |-> n + 1,
                notices |-> notes2]
          ELSE ReadLoop_retry(h2, Tail(avail), eof, n + 1, notes2)

\* Lines 31-41: while True: line = next(f).strip(); adopt it if non-empty;
\* leave the loop once a header is set.  With no line left, next(f) raises
\* StopIteration at end of file and waits otherwise.
RECURSIVE ReadLoop(_, _, _, _, _)
ReadLoop(h, avail, eof, n, notes) ==
  IF avail = <<>>
  THEN [outcome |-> IF eof THEN "eof" ELSE "block",
        hdr |-> h, nread |-> n, notices |-> notes]
  ELSE LET line == strip(Head(avail))
           h2 == IF line # <<>> THEN <<line>> ELSE h
           notes2 == IF line # <<>> THEN notes + 1 ELSE notes
       IN IF h2 # None
          THEN [outcome |-> "ok", hdr |-> h2, nread |-> n + 1,
                notices |-> notes2]
          ELSE ReadLoop(h2, Tail(avail), eof, n + 1, notes2)

\* The call reading a line whether or not the descriptor is readable.
get_auth_header_always(h, resumed, b, p, t, c) ==
  ReadLoop(h, Available(b, p, t, c), c, 0, 0)

\* Lines 28-43.  `resumed`: the call is already inside next(f).
get_auth_header(h, resumed, b, p, t, c) ==
  IF resumed \/ h = None \/ select(p, t, c)
  THEN ReadLoop(h, Available(b, p, t, c), c, 0, 0)
  ELSE [outcome |-> "ok", hdr |-> h, nread |-> 0, notices |-> 0]

HeaderCall == get_auth_header(auth_header, inRead, buf, pipe, tail, closed)

\* A call site can take a step unless it waits inside next(f) with nothing
\* to read.
CanStep == ~inRead \/ Available(buf, pipe, tail, closed) # <<>> \/ closed

\* How many of the lines left unread may sit in the read-ahead buffer after
\* a call that returned n lines: reads served from the buffer leave the
\* descriptor alone; a read that went to the descriptor takes whatever one
\* read returns, at least the line it needed.  (How many lines one read
\* returns depends on their lengths, which are not modelled; unterminated
\* bytes are kept in `tail` until their newline or the end of file.)
SplitOk(n, k) ==
  LET U == buf \o pipe
  IN IF n <= Len(buf) THEN k = Len(buf) - n
     ELSE IF n > Len(U) THEN k = 0
     ELSE k \in 0..(Len(U) - n)

\* The effect of one step of a call on the credential and the stream.
Consume(r, k) ==
  LET U == buf \o pipe
      rest == IF r.nread >= Len(U) THEN <<>>
              ELSE SubSeq(U, r.nread + 1, Len(U))
  IN /\ SplitOk(r.nread, k)
     /\ auth_header' = r.hdr
     /\ inRead' = (r.outcome = "block")
     /\ buf' = SubSeq(rest, 1, k)
     /\ pipe' = SubSeq(rest, k + 1, Len(rest))
     /\ tail' = IF r.nread > Len(U) THEN <<>> ELSE tail
     /\ call' = IF inRead
                THEN [call EXCEPT !.after = r.hdr,
                                  !.nread = @ + r.nread,
                                  !.notices = @ + r.notices,
                                  !.outcome = r.outcome]
                ELSE [ready |-> select(pipe, tail, closed),
                      first |-> auth_header = None,
                      before |-> auth_header, after |-> r.hdr,
                      nread |-> r.nread, notices |-> r.notices,
                      outcome |-> r.outcome, unread |-> U, fresh |-> pipe]
     /\ adopted' = IF r.notices = 0 THEN adopted ELSE Log(adopted, r.hdr[1])
     /\ UNCHANGED <<closed, budget, arrivals, trace, written>>

\* ------------------------------------------------------------ the feeder
Running == exitCode = NotExited

Arrive(l) ==
  /\ Running /\ ~closed /\ tail = <<>> /\ arrivals < budget
  /\ pipe' = Append(pipe, l)
  /\ arrivals' = arrivals + 1
  /\ written' = Log(written, l)
  /\ UNCHANGED <<plan, posVars, pc, exitCode, credVars, buf, tail, closed,
                 budget, reqVars, trace>>

ArriveTail(f) ==
  /\ Running /\ ~closed /\ tail = <<>> /\ arrivals < budget
  /\ tail' = f
  /\ arrivals' = arrivals + 1
  /\ UNCHANGED <<plan, posVars, pc, exitCode, credVars, buf, pipe, closed,
                 budget, reqVars, trace, written>>

CompleteTail ==
  /\ Running /\ ~closed /\ tail # <<>>
  /\ pipe' = Append(pipe, tail \o <<"\n">>)
  /\ tail' = <<>>
  /\ written' = Log(written, tail \o <<"\n">>)
  /\ UNCHANGED <<plan, posVars, pc, exitCode, credVars, buf, closed,
                 budget, arrivals, reqVars, trace>>

Close ==
  /\ Running /\ ~closed
  /\ closed' = TRUE
  /\ written' = IF tail # <<>> THEN Log(written, tail) ELSE written
  /\ UNCHANGED <<plan, posVars, pc, exitCode, credVars, buf, pipe, tail,
                 budget, arrivals, reqVars, trace>>

\* ------------------------------------------------------- test_extensions
\* The element the three nested for loops stand at, starting the search at
\* (s, ph, e): an exhausted enable loop hands over to the disable loop of
\* the same set, an exhausted disable loop to the next set, and past the
\* last set the function returns.
\* The loops without the disable loop: after a set's last enable, the next
\* set.
RECURSIVE NextPos_noDisable(_, _, _, _)
NextPos_noDisable(pl, s, ph, e) ==
  IF s > Len(pl) THEN [si |-> s, phase |-> "end", ei |-> 0]
  ELSE IF e <= Len(pl[s]) THEN [si |-> s, phase |-> ph, ei |-> e]
  ELSE NextPos_noDisable(pl, s + 1, "enable", 1)

RECURSIVE NextPos(_, _, _, _)
NextPos(pl, s, ph, e) ==
  IF s > Len(pl) THEN [si |-> s, phase |-> "end", ei |-> 0]
  ELSE IF e <= Len(pl[s]) THEN [si |-> s, phase |-> ph, ei |-> e]
  ELSE IF ph = "enable" THEN NextPos(pl, s, "disable", 1)
  ELSE NextPos(pl, s + 1, "enable", 1)

\* The disable loop walking the set in listed order.
DisableOrder_listed(set) == set

\* Line 84: the disable loop walks reversed(extension_set).
DisableOrder(set) == reversed(set)

\* The extension the running inner loop is at.
CurrentExt(pl, s, ph, e) ==
  IF ph = "enable" THEN pl[s][e] ELSE DisableOrder(pl[s])[e]

\* Moving the loops to position p; past the end the script falls off
\* line 108 and the process exits with status 0.
GoTo(p) ==
  /\ si' = p.si /\ phase' = p.phase /\ ei' = p.ei
  /\ pc' = IF p.phase = "end" THEN "done" ELSE "patch"
  /\ exitCode' = IF p.phase = "end" THEN ExitOk ELSE NotExited

\* An exception that nothing catches (StopIteration, requests.HTTPError)
\* ends the process with status 1; sys.exit(8) with status 8.
Exit(code) ==
  /\ pc' = "done"
  /\ exitCode' = code
  /\ UNCHANGED posVars

\* A loop body that polls at once and sleeps afterwards.
LoopStart_poll == "get"

\* Lines 47-48: every round of the polling loop, the first included, begins
\* with time.sleep(10).
LoopStart == "sleep"

\* A response whose status is never looked at.
raise_for_status_never(ok) == FALSE

\* A request sent with the header of the request before it.
RequestHeader_cached(r) == IF lastHdr # None THEN lastHdr ELSE r.hdr

\* Lines 51, 73, 89: headers=_get_auth_header(), the value the call made
\* for this request returned.
RequestHeader(r) == r.hdr

\* Lines 53, 81, 97: resp.raise_for_status() raises on a response that is
\* not a success; a transport failure has raised inside requests already.
raise_for_status(ok) == ~ok

\* Line 108: test_extensions(api_base_url, service_guid, extension_sets).
Main ==
  /\ pc = "main"
  /\ GoTo(NextPos(plan, 1, "enable", 1))
  /\ UNCHANGED <<plan, credVars, streamVars, reqVars>>

\* Lines 69-82 (op = "enable") and 85-98 (op = "disable"): the header is
\* fetched, the PATCH sent, raise_for_status() ends the run on an error
\* response, and otherwise _wait_for_success is entered.
SendPatch(op, k, resp) ==
  /\ pc = "patch" /\ phase = op /\ CanStep
  /\ LET r == HeaderCall
     IN /\ Consume(r, k)
        /\ CASE r.outcome = "block" ->
                  /\ resp = "ok"
                  /\ UNCHANGED <<posVars, pc, exitCode, reqVars>>
             [] r.outcome = "eof" ->
                  /\ resp = "ok"
                  /\ Exit(ExitUncaught)
                  /\ UNCHANGED reqVars
             [] OTHER ->
                  /\ patches' = Append(patches,
                        [op |-> op, ext |-> CurrentExt(plan, si, phase, ei),
                         reboot |-> TRUE, ok |-> resp = "ok"])
                  /\ polls' = <<>>
                  /\ dots' = 0
                  /\ lastHdr' = RequestHeader(r)
                  /\ UNCHANGED printed
                  /\ IF raise_for_status(resp = "ok")
                     THEN Exit(ExitUncaught)
                     ELSE pc' = LoopStart /\ UNCHANGED <<posVars, exitCode>>
  /\ UNCHANGED plan

EnablePatch ==
  \E k \in 0..MaxArrive, resp \in {"ok", "http_error"} :
     SendPatch("enable", k, resp)

DisablePatch ==
  \E k \in 0..MaxArrive, resp \in {"ok", "http_error"} :
     SendPatch("disable", k, resp)

\* ------------------------------------------------------ _wait_for_success
\* Line 48: sleep(10).
Sleep ==
  /\ pc = "sleep"
  /\ pc' = "get"
  /\ UNCHANGED <<plan, posVars, exitCode, credVars, streamVars, reqVars>>

\* An error response to a GET, or none at all.
NoAnswer == [ok |-> FALSE, state |-> "", description |-> ""]

\* The loop returning on any state that is not "failed".
Classify_eager(state) ==
  IF state = "failed" THEN "exit" ELSE "return"

\* The loop taking "failed" for one more state to wait out.
Classify_lenient(state) ==
  IF state = "succeeded" THEN "return" ELSE "loop"

\* The loop taking every state it does not know for a failure.
Classify_strict(state) ==
  IF state = "succeeded" THEN "return"
  ELSE IF state = "pending" THEN "loop"
  ELSE "exit"

\* Lines 55-63: what the loop does with a polled state.
Classify(state) ==
  IF state = "succeeded" THEN "return"
  ELSE IF state = "failed" THEN "exit"
  ELSE "loop"

\* A polling loop that gives up after its first inconclusive answer.
LoopCondition_bounded(attempts) == attempts < 1

\* Line 47: `while True`, whatever the number of polls made so far; the
\* function has no other exit than the return and the sys.exit below.
LoopCondition(attempts) == TRUE

\* Lines 49-63: the header is fetched, the GET sent, raise_for_status()
\* ends the run on an error response; "succeeded" returns to the caller,
\* whose loops move on; "failed" prints the description and exits 8; any
\* other state prints a dot and goes round again.
Poll(k, resp) ==
  /\ pc = "get" /\ CanStep
  /\ LET r == HeaderCall
     IN /\ Consume(r, k)
        /\ CASE r.outcome = "block" ->
                  /\ resp = NoAnswer
                  /\ UNCHANGED <<posVars, pc, exitCode, reqVars>>
             [] r.outcome = "eof" ->
                  /\ resp = NoAnswer
                  /\ Exit(ExitUncaught)
                  /\ UNCHANGED reqVars
             [] OTHER ->
                  /\ polls' = Append(polls, resp)
                  /\ lastHdr' = RequestHeader(r)
                  /\ UNCHANGED patches
                  /\ IF raise_for_status(resp.ok)
                     THEN Exit(ExitUncaught) /\ UNCHANGED <<dots, printed>>
                     ELSE CASE Classify(resp.state) = "return" ->
                                 /\ GoTo(NextPos(plan, si, phase, ei + 1))
                                 /\ UNCHANGED <<dots, printed>>
                            [] Classify(resp.state) = "exit" ->
                                 /\ printed' = resp.description
                                 /\ Exit(ExitFailed)
                                 /\ UNCHANGED dots
                            [] OTHER ->
                                 /\ dots' = dots + 1
                                 /\ IF LoopCondition(Len(polls'))
                                    THEN pc' = LoopStart /\ UNCHANGED <<posVars, exitCode>>
                                    ELSE GoTo(NextPos(plan, si, phase, ei + 1))
                                 /\ UNCHANGED printed
  /\ UNCHANGED plan

\* The service's answers to a GET: an error response, or last_operation
\* with its state and, when failed, its description.  A state that keeps the
\* loop going is offered only while the wait has fewer than MaxPolls polls
\* behind it.
Answers ==
  {NoAnswer}
    \cup {[ok |-> TRUE, state |-> "succeeded", description |-> ""]}
    \cup {[ok |-> TRUE, state |-> "failed", description |-> d] :
             d \in Descriptions}
    \cup (IF Len(polls) + 1 < MaxPolls
          THEN {[ok |-> TRUE, state |-> st, description |-> ""] :
                  st \in States \ {"succeeded", "failed"}}
          ELSE {})

PollStep ==
  \E k \in 0..MaxArrive, resp \in Answers : Poll(k, resp)

Feeder ==
  \/ \E l \in RawLines : Arrive(l)
  \/ \E f \in Fragments : ArriveTail(f)
  \/ CompleteTail
  \/ Close

Next ==
  \/ Main
  \/ EnablePatch
  \/ DisablePatch
  \/ Sleep
  \/ PollStep
  \/ Feeder

Spec == Init /\ [][Next]_vars

CredSpec == CredInit /\ [][Next]_vars
HistSpec == HistInit /\ [][Next]_vars

\* The script is one thread that runs whenever it can: a step of it that
\* stays possible is taken.  Nothing is asked of the feeder.
Process == Main \/ EnablePatch \/ DisablePatch \/ Sleep \/ PollStep

LiveSpec == LiveInit /\ [][Next]_vars /\ WF_vars(Process)

\* ================================================================ claims
Last(s) == s[Len(s)]
Terminal == {"succeeded", "failed"}
IsPrefix(a, b) == Len(a) <= Len(b) /\ SubSeq(b, 1, Len(a)) = a
Request(p) == [op |-> p.op, ext |-> p.ext]

\* What a plan asks of the service: per set, in plan order, its extensions
\* enabled in listed order, then disabled in the reverse of it.
RECURSIVE ExpectedPatches(_)
ExpectedPatches(pl) ==
  IF pl = <<>> THEN <<>>
  ELSE LET set == Head(pl)
           n == Len(set)
       IN [i \in 1..n |-> [op |-> "enable", ext |-> set[i]]]
          \o [i \in 1..n |-> [op |-> "disable", ext |-> set[n - i + 1]]]
          \o ExpectedPatches(Tail(pl))

\* C1: the PATCH requests issued so far are, in order, the first requests of
\* what the plan asks for (each set's extensions enabled in listed order,
\* then disabled in reverse order, set after set), every one of them carries
\* the reboot flag, and the sequencer stands before a further PATCH only
\* with the previous one answered and its operation polled "succeeded".
C1_PatchOrder ==
  /\ IsPrefix([i \in 1..Len(patches) |-> Request(patches[i])],
              ExpectedPatches(plan))
  /\ \A i \in 1..Len(patches) : patches[i].reboot
  /\ (pc = "patch" /\ patches # <<>>) =>
        /\ Last(patches).ok
        /\ polls # <<>> /\ Last(polls).state = "succeeded"

C1_Witness ==
  /\ plan = <<<<"A", "B">>>>
  /\ exitCode = ExitOk
  /\ [i \in 1..Len(patches) |-> Request(patches[i])]
       = << [op |-> "enable", ext |-> "A"], [op |-> "enable", ext |-> "B"],
            [op |-> "disable", ext |-> "B"], [op |-> "disable", ext |-> "A"] >>

\* C2: a step that issues a PATCH after an earlier one is taken only with at
\* least one poll made since the earlier PATCH and the last of those polls
\* answered "succeeded"; while the last poll is missing, failed or not
\* terminal, no step issues a PATCH.
C2_StrictSequencing ==
  [][ (patches' # patches /\ patches # <<>>) =>
        ( /\ Len(patches') = Len(patches) + 1
          /\ Last(patches).ok
          /\ polls # <<>>
          /\ Last(polls).ok /\ Last(polls).state = "succeeded" ) ]_vars

C2_Witness ==
  /\ Len(patches) = 2
  /\ Len(polls) = 0
  /\ pc = "sleep"

\* C3: a step of the waiter returns to the sequencer exactly when it polls
\* "succeeded", ends the run with the failure status and the server's
\* description printed exactly when it polls "failed"; the run has the
\* failure status exactly when the last state polled is "failed"; and no
\* state polled before the last one is terminal, so the first terminal state
\* ends the polling.
InWait == pc \in {"sleep", "get"}
Polled == Len(polls') = Len(polls) + 1
WaitReturns == pc' = "patch" \/ exitCode' = ExitOk
WaitFails == exitCode' = ExitFailed

C3_WaitOutcome ==
  /\ [][ InWait =>
           ( /\ WaitReturns <=> (Polled /\ Last(polls').state = "succeeded")
             /\ WaitFails <=> (Polled /\ Last(polls').state = "failed")
             /\ WaitFails => printed' = Last(polls').description ) ]_vars
  /\ [] ( /\ exitCode = ExitFailed <=>
               (polls # <<>> /\ Last(polls).state = "failed")
          /\ exitCode = ExitFailed => printed = Last(polls).description
          /\ InWait => \A i \in 1..Len(polls) : polls[i].state \notin Terminal
          /\ \A i \in 1..(Len(polls) - 1) :
                polls[i].ok /\ polls[i].state \notin Terminal )

C3_Witness ==
  /\ Len(polls) = 2
  /\ polls[1].state = "in progress"
  /\ polls[2].state = "failed"
  /\ printed = "out of disk"
  /\ exitCode = ExitFailed

\* C4: a poll answered with a state other than "succeeded" and "failed"
\* leaves the run going inside the waiter, with one more progress marker
\* printed, and the waiter leaves its loop only through another poll.
NonTerminalPoll ==
  /\ polls' # polls /\ polls' # <<>>
  /\ Last(polls').ok /\ Last(polls').state \notin Terminal

C4_UnknownStateKeepsPolling ==
  /\ [][ NonTerminalPoll =>
           ( /\ pc' = "sleep"
             /\ exitCode' = NotExited
             /\ dots' = dots + 1
             /\ patches' = patches
             /\ posVars' = posVars ) ]_vars
  /\ [][ (pc \in {"sleep", "get"}) =>
           ( \/ pc' \in {"sleep", "get"} /\ exitCode' = NotExited
             \/ Len(polls') = Len(polls) + 1
             \/ call'.outcome = "eof" ) ]_vars

C4_Witness ==
  /\ Len(polls) = 2
  /\ polls[1].state = "in progress"
  /\ polls[2].state = "succeeded"
  /\ dots = 1

\* C5: once a poll has answered "failed" the run is over with the failure
\* status, which is neither 0 nor the status of an uncaught error, and with
\* the server's description printed; a failure in the enable loop leaves
\* the last PATCH an enable; and a run that is over issues no request.
NoRequestAfterExit ==
  [][ exitCode # NotExited =>
        ( /\ patches' = patches /\ polls' = polls
          /\ exitCode' = exitCode /\ printed' = printed ) ]_vars

C5_FailedAborts ==
  /\ [] ( (polls # <<>> /\ Last(polls).state = "failed") =>
            /\ pc = "done"
            /\ exitCode = ExitFailed
            /\ ExitFailed = 8
            /\ ExitFailed \notin {ExitOk, ExitUncaught}
            /\ printed = Last(polls).description
            /\ Last(patches).op = phase
            /\ (phase = "enable" =>
                  \A i \in 1..Len(patches) :
                     patches[i].op = "disable" =>
                        \E j \in i + 1..Len(patches) :
                           /\ patches[j].op = "enable"
                           /\ \A m \in i..j : patches[m].ok) )
  /\ NoRequestAfterExit

C5_Witness ==
  /\ plan = <<<<"A", "B">>>>
  /\ Len(patches) = 2
  /\ Last(patches).ext = "B" /\ Last(patches).op = "enable"
  /\ polls # <<>> /\ Last(polls).state = "failed"
  /\ printed = "dependency missing"
  /\ exitCode = ExitFailed

\* C6: a request answered with an error is the last request of the run: it
\* is the only one so answered, the run is over with the status of an
\* uncaught error, which is neither 0 nor the failure status, and nothing
\* is issued afterwards.
ErrorSeen ==
  \/ patches # <<>> /\ ~Last(patches).ok
  \/ polls # <<>> /\ ~Last(polls).ok

C6_TransportErrorFatal ==
  /\ [] ( /\ \A i \in 1..(Len(patches) - 1) : patches[i].ok
          /\ \A i \in 1..(Len(polls) - 1) : polls[i].ok
          /\ (patches # <<>> /\ ~Last(patches).ok) => polls = <<>>
          /\ ErrorSeen =>
               /\ pc = "done"
               /\ exitCode = ExitUncaught
               /\ ExitUncaught \notin {ExitOk, ExitFailed}
               /\ printed = "" )
  /\ [][ ErrorSeen => (patches' = patches /\ polls' = polls) ]_vars

C6_Witness ==
  /\ Len(patches) = 3
  /\ Last(patches).op = "disable" /\ ~Last(patches).ok
  /\ exitCode = ExitUncaught

\* C7: with a credential stored, the process is never waiting inside
\* next(f).
C7_NeverBlocksAgain == auth_header # None => ~inRead

\* C8: a call that finds two or more non-empty lines newly arrived at the
\* descriptor returns the last of them.
FreshNonEmpty ==
  /\ call.outcome = "ok"
  /\ Len(call.fresh) >= 2
  /\ \A i \in 1..Len(call.fresh) : strip(call.fresh[i]) # <<>>

C8_NewestAdopted ==
  FreshNonEmpty => call.after = <<strip(Last(call.fresh))>>

\* C8, amended: a call that finds two or more lines newly arrived at the
\* descriptor, the oldest line not yet read being non-empty, reads that
\* one line and adopts it, with one notice; every later line, the most
\* recent included, stays unread.
C8_OldestAdopted ==
  ( /\ call.outcome = "ok"
    /\ Len(call.fresh) >= 2
    /\ strip(call.unread[1]) # <<>> ) =>
      /\ call.after = <<strip(call.unread[1])>>
      /\ auth_header = call.after
      /\ call.nread = 1
      /\ call.notices = 1
      /\ IsPrefix(Tail(call.unread), buf \o pipe)

C8_Witness ==
  /\ call.outcome = "ok" /\ ~call.first /\ call.ready
  /\ call.before = << <<"a">> >>
  /\ Len(call.fresh) = 2 /\ call.unread = call.fresh
  /\ strip(call.fresh[1]) = <<"b">>
  /\ strip(call.fresh[2]) = <<"a">>
  /\ auth_header = << <<"b">> >>

\* C9: a call made with a credential stored and the descriptor not readable
\* returns that credential, leaves it stored, reads no line, prints no
\* notice and leaves every unread line where it was.
QuietCall == call.outcome # "none" /\ ~call.first /\ ~call.ready

C9_QuietCallChangesNothing ==
  QuietCall =>
    /\ call.outcome = "ok"
    /\ call.after = call.before
    /\ auth_header = call.before
    /\ lastHdr = call.before
    /\ call.nread = 0
    /\ call.notices = 0
    /\ IsPrefix(call.unread, buf \o pipe)
    /\ ~inRead

C9_Witness ==
  /\ QuietCall
  /\ call.unread # <<>>
  /\ polls # <<>>
  /\ lastHdr = << <<"a">> >>

\* C10: every step that sends a request, PATCH or GET, sends it with the
\* credential stored at the end of the call made in that step; in
\* particular, a single non-empty line newly arrived at the descriptor of a
\* process that holds a credential and nothing read ahead is the header of
\* the very next request.
SendsRequest == Len(patches') = Len(patches) + 1 \/ Len(polls') = Len(polls) + 1

RotationWaiting ==
  /\ auth_header # None /\ ~inRead
  /\ buf = <<>> /\ pipe # <<>>
  /\ strip(pipe[1]) # <<>>

C10_FreshHeaderPerRequest ==
  [][ SendsRequest =>
        ( /\ call'.outcome = "ok"
          /\ lastHdr' = call'.after
          /\ lastHdr' = auth_header'
          /\ lastHdr' # None
          /\ RotationWaiting => lastHdr' = <<strip(pipe[1])>> ) ]_vars

C10_Witness ==
  /\ Len(patches) = 2 /\ Last(patches).op = "disable"
  /\ polls # <<>>
  /\ ~call.first /\ call.before = << <<"a">> >>
  /\ call.after = << <<"b">> >>
  /\ lastHdr = << <<"b">> >>

\* C11: with no credential stored, the feeder's end closed and nothing but
\* blank lines left to read, the call made for the first request raises:
\* the step ends the run with the status of an uncaught error, no
\* credential, no notice and no request; and a run whose first call ended
\* so has issued no PATCH and no GET, and makes no further call.
OnlyBlanksLeft ==
  \A i \in 1..Len(Available(buf, pipe, tail, closed)) :
     strip(Available(buf, pipe, tail, closed)[i]) = <<>>

StartupStarved ==
  /\ Running /\ pc = "patch"
  /\ auth_header = None /\ closed /\ OnlyBlanksLeft

C11_NoCredentialIsFatal ==
  /\ [][ StartupStarved =>
           ( /\ pc' = "done" /\ exitCode' = ExitUncaught
             /\ call'.outcome = "eof" /\ call'.notices = 0
             /\ auth_header' = None
             /\ patches' = <<>> /\ polls' = <<>> ) ]_vars
  /\ [] ( (call.outcome = "eof" /\ auth_header = None) =>
            /\ pc = "done" /\ exitCode = ExitUncaught
            /\ patches = <<>> /\ polls = <<>> /\ lastHdr = None
            /\ ~inRead )
  /\ [][ call.outcome = "eof" => call' = call ]_vars

C11_Witness ==
  /\ call.outcome = "eof" /\ call.first
  /\ call.nread = 2
  /\ auth_header = None
  /\ exitCode = ExitUncaught
  /\ patches = <<>>

\* C12: a run that has ended with status 0 has issued exactly the plan's
\* requests, one enable and one disable per extension occurrence, each
\* answered without error and the last one polled "succeeded", and issues
\* nothing more; and every run ends with status 0 unless a request was
\* answered with an error, a poll answered "failed", the token stream ended
\* under a call, or the process waits for a token for ever.
RECURSIVE Occurrences(_)
Occurrences(pl) ==
  IF pl = <<>> THEN 0 ELSE Len(Head(pl)) + Occurrences(Tail(pl))

Hindered ==
  \/ ErrorSeen
  \/ polls # <<>> /\ Last(polls).state = "failed"
  \/ call.outcome = "eof"

Starved == inRead /\ ~CanStep

C12_FullSuccess ==
  /\ [] ( exitCode = ExitOk =>
            /\ pc = "done"
            /\ Len(patches) = 2 * Occurrences(plan)
            /\ [i \in 1..Len(patches) |-> Request(patches[i])]
                 = ExpectedPatches(plan)
            /\ \A i \in 1..Len(patches) : patches[i].ok
            /\ patches # <<>> => Last(polls).state = "succeeded"
            /\ printed = "" )
  /\ [][ exitCode = ExitOk =>
           (patches' = patches /\ polls' = polls /\ exitCode' = ExitOk) ]_vars
  /\ ( <>(exitCode = ExitOk) \/ <>Hindered \/ <>[]Starved )

C12_Witness ==
  /\ plan = << <<"A">>, <<>>, <<"B">> >>
  /\ exitCode = ExitOk
  /\ Len(patches) = 4
  /\ dots = 1

\* C13: the polling loop has no bound on attempts and no timeout.  While
\* every poll of the current wait was answered without error and with a
\* state that is neither "succeeded" nor "failed", the script is still in
\* that wait, about to sleep or to poll again, however many polls it has
\* made; only the end of stdin under the header call ends the run there.
\* No PATCH is sent from such a wait, and the position in the plan stays.
AllPending ==
  /\ polls # <<>>
  /\ \A i \in 1..Len(polls) : polls[i].ok /\ polls[i].state \notin Terminal

ReadyCall == call.outcome # "none" /\ ~call.first /\ call.ready

C14_ExactlyOneLine ==
  (ReadyCall /\ call.outcome # "block") => call.nread = 1

\* C14, amended: such a call never reads more than one line, and reads
\* exactly one whenever it returns; it reads none only when the descriptor
\* was readable for the end of the stream alone, where it fails, or while
\* it waits for the end of a line.  A call that read a non-empty line has
\* stored it, stripped, with one notice; a call that read a blank line, or
\* none, has left the credential alone and printed nothing.
C14_AtMostOneLine ==
  ReadyCall =>
    /\ call.nread \in {0, 1}
    /\ call.notices \in {0, 1}
    /\ auth_header = call.after
    /\ call.outcome = "ok" <=> call.nread = 1
    /\ call.outcome = "eof" =>
          (closed /\ call.unread = <<>> /\ exitCode = ExitUncaught)
    /\ call.outcome = "block" => (inRead /\ call.unread = <<>>)
    /\ call.nread = 0 => (call.after = call.before /\ call.notices = 0)
    /\ (call.outcome = "ok" /\ call.unread # <<>>) =>
          /\ IsPrefix(Tail(call.unread), buf \o pipe)
          /\ IF strip(call.unread[1]) # <<>>
             THEN call.after = <<strip(call.unread[1])>> /\ call.notices = 1
             ELSE call.after = call.before /\ call.notices = 0
    /\ (call.outcome = "ok" /\ call.unread = <<>>) =>
          \/ call.notices = 1 /\ call.after # None /\ call.after[1] # <<>>
          \/ call.notices = 0 /\ call.after = call.before

C14_Witness ==
  /\ ReadyCall /\ call.outcome = "ok"
  /\ Len(call.unread) >= 2
  /\ strip(call.unread[1]) # <<>> /\ strip(call.unread[2]) # <<>>
  /\ call.after # call.before
  /\ call.nread = 1 /\ call.notices = 1
  /\ polls # <<>>

\* C15: a status GET is sent only from the point the sleep leads to, and
\* that point is reached by a completed sleep alone, which sends nothing.
\* A PATCH answered without error and a poll that has to be repeated both
\* leave the script in front of the sleep, so that the first poll after a
\* PATCH and every later poll of the wait come after one sleep of their
\* own; while the script is in front of the sleep no request is sent.
Patched == Len(patches') = Len(patches) + 1

C15_SleepBeforeEveryPoll ==
  /\ [][ Polled => (pc = "get" /\ ~Patched) ]_vars
  /\ [][ (pc' = "get" /\ pc # "get") =>
           (pc = "sleep" /\ UNCHANGED <<reqVars, credVars, posVars>>) ]_vars
  /\ [][ (Patched /\ Last(patches').ok) => (pc' = "sleep" /\ polls' = <<>>) ]_vars
  /\ [][ (Polled /\ exitCode' = NotExited /\ pc' # "patch") => pc' = "sleep" ]_vars
  /\ [][ (pc = "sleep") =>
           (pc' \in {"sleep", "get"} /\ UNCHANGED <<reqVars, credVars>>) ]_vars
  /\ [][ (pc = "get" /\ pc' = "get") => UNCHANGED <<patches, polls>> ]_vars

C15_Witness ==
  /\ Len(polls) = 2 /\ polls[1].ok /\ polls[1].state \notin Terminal
  /\ Len(patches) = 2
  /\ pc = "patch"

\* C16: the credentials stored over the run are, in order, the first of the
\* non-empty lines written to the token stream, each stripped: none is
\* skipped, none comes back after a later one, the credential in use is the
\* last of them, and every non-empty line not yet adopted is still unread.
\* A step adopts at most one line, so a backlog of k non-empty lines is not
\* used up in fewer than k calls.
RECURSIVE NonBlank(_)
NonBlank(lines) ==
  IF lines = <<>> THEN <<>>
  ELSE IF strip(Head(lines)) = <<>> THEN NonBlank(Tail(lines))
  ELSE <<strip(Head(lines))>> \o NonBlank(Tail(lines))

Backlog == Len(NonBlank(written)) - Len(adopted)

C16_AdoptedInOrder ==
  /\ [] ( trace =>
            /\ IsPrefix(adopted, NonBlank(written))
            /\ auth_header = IF adopted = <<>> THEN None ELSE <<Last(adopted)>>
            /\ NonBlank(written) =
                 adopted \o NonBlank(Available(buf, pipe, tail, closed)) )
  /\ [][ trace =>
           ( /\ Len(adopted') <= Len(adopted) + 1
             /\ IsPrefix(adopted, adopted')
             /\ Backlog' >= Backlog - 1
             /\ (adopted' # adopted) =>
                   (call'.notices >= 1 /\ pc \in {"patch", "get"}) ) ]_vars

C16_Witness ==
  /\ trace
  /\ call.outcome = "ok"
  /\ Len(NonBlank(call.unread)) = 2
  /\ Len(adopted) = 1 /\ Backlog = 1
  /\ adopted[1] = NonBlank(written)[1]
  /\ adopted[1] # NonBlank(written)[2]

\* C17: with a credential stored, the feeder's end closed and no line left
\* to read, the descriptor is readable and the next call, whether it is made
\* for a PATCH or for a GET, ends with the end-of-stream error: the stored
\* credential is not returned, the request the call was made for is not
\* sent, the process ends with the status of an uncaught exception, and no
\* request follows.
EofAfterCredential ==
  /\ Running /\ pc \in {"patch", "get"}
  /\ auth_header # None
  /\ closed /\ Available(buf, pipe, tail, closed) = <<>>

C17_EofAfterCredentialAborts ==
  /\ [] ( EofAfterCredential => select(pipe, tail, closed) )
  /\ [][ EofAfterCredential =>
           ( /\ call'.outcome = "eof" /\ call'.nread = 0
             /\ ~call'.first /\ call'.before = auth_header
             /\ pc' = "done" /\ exitCode' = ExitUncaught
             /\ UNCHANGED <<reqVars, auth_header>> ) ]_vars
  /\ [] ( call.outcome = "eof" =>
            (pc = "done" /\ exitCode = ExitUncaught /\ ~inRead) )
  /\ [][ (exitCode # NotExited) => UNCHANGED <<reqVars, exitCode>> ]_vars

C17_Witness ==
  /\ call.outcome = "eof" /\ ~call.first /\ call.ready
  /\ call.before = << <<"a">> >>
  /\ Len(patches) = 1 /\ Len(polls) = 1
  /\ exitCode = ExitUncaught

\* C18: a call made with a credential stored and the descriptor readable,
\* whose next unread line is blank, reads that one line and returns: the
\* credential is the one stored before and the request goes out with it,
\* no notice is printed, every later line stays unread, a non-blank one
\* included, and the process is not left waiting for a line.
BlankCall ==
  /\ ReadyCall
  /\ call.unread # <<>> /\ strip(call.unread[1]) = <<>>

C18_BlankLineChangesNothing ==
  BlankCall =>
    /\ call.outcome = "ok"
    /\ call.nread = 1
    /\ call.notices = 0
    /\ call.after = call.before
    /\ auth_header = call.before
    /\ lastHdr = call.before
    /\ IsPrefix(Tail(call.unread), buf \o pipe)
    /\ ~inRead

C18_Witness ==
  /\ BlankCall
  /\ Len(call.unread) >= 2 /\ strip(call.unread[2]) = <<"b">>
  /\ buf \o pipe = Tail(call.unread)
  /\ lastHdr = << <<"a">> >>
  /\ polls # <<>>

\* C19: the credential stored is either absent or one line that is not
\* empty, has no whitespace at either end and is the stripped form of a line
\* written to the token stream; once stored, a credential is never absent
\* again.  The first call reads the stream from its start, passes every
\* blank line and stores the first line that is not blank, stripped, with
\* one notice; as long as it has read blank lines only, nothing is stored.
WellFormed(h) ==
  /\ Len(h) = 1
  /\ h[1] # <<>>
  /\ Head(h[1]) \notin Whitespace
  /\ Last(h[1]) \notin Whitespace

FirstCall == call.first /\ call.outcome # "none"

C19_CredentialNeverBlank ==
  /\ [] ( trace =>
            \/ auth_header = None
            \/ /\ WellFormed(auth_header)
               /\ \E i \in 1..Len(written) : strip(written[i]) = auth_header[1] )
  /\ [][ (auth_header # None) => (auth_header' # None) ]_vars
  /\ [] ( (trace /\ FirstCall) =>
            /\ call.nread <= Len(written)
            /\ \A i \in 1..(call.nread - 1) : strip(written[i]) = <<>>
            /\ IF call.outcome = "ok"
               THEN /\ call.nread >= 1
                    /\ strip(written[call.nread]) # <<>>
                    /\ call.after = <<strip(written[call.nread])>>
                    /\ auth_header = call.after
                    /\ call.notices = 1
               ELSE /\ auth_header = None
                    /\ call.notices = 0
                    /\ \A i \in 1..call.nread : strip(written[i]) = <<>> )

C19_Witness ==
  /\ trace /\ FirstCall /\ call.outcome = "ok"
  /\ call.nread = 2
  /\ written[1] = <<" ", "\n">>
  /\ written[2] = <<" ", "b", "\n">>
  /\ auth_header = << <<"b">> >>
  /\ Len(patches) = 1

====
